---- MODULE Spec2Model ----
(***************************************************************************)
(* Model of BaseDevice.py: the Interpreter (tick, holds, queued command    *)
(* dispatch, realtime reset) and the Spooler (job queue guarded by         *)
(* queue_lock).                                                            *)
(*                                                                         *)
(* Spec         the interpreter driven tick by tick; every operation       *)
(*              (interpret, job, reset, ...) is one atomic action.         *)
(* SpecHolds    the same with temporary and permanent holds.               *)
(* SpecMode     the motion modes: ensure_*_mode called directly and by     *)
(*              queued MODE_* commands.                                    *)
(* SpecSettings the power-like settings: set_power, set_ppi, set_pwm       *)
(*              called directly and by queued SET_* commands.              *)
(* SpecSpooler  the Spooler used by several threads; every statement of a  *)
(*              Spooler method is one step of the calling thread.          *)
(* SpecFifo     the same with producers (job, jobs) and the consumer (pop) *)
(*              only.                                                      *)
(* SpecLock     the same with job, pop, clear_queue and remove.            *)
(* SpecRace     interpret() on the driver's thread, statement by           *)
(*              statement, while another thread runs reset().              *)
(* SpecRemove   remove called on queues of ints, tuples and objects.       *)
(* SpecAvailable   ticks over malformed and well-formed jobs.              *)
(* SpecModeMachine the motion modes among other commands and resets.       *)
(* SpecQuit     ticks around the shutdown flag context.quit.               *)
(* SpecPosition the commands that set the position, as queued jobs.        *)
(***************************************************************************)
EXTENDS Integers, Sequences, FiniteSets, TLC

\* ------------------------------------------------------------------ bounds
MaxJobs == 3
MaxQueue == 2
MaxLen == 2
MaxHoldTicks == 2
MaxTempHolds == 1
MaxHolds == 1
MaxHeldJobs == 1
MaxModeJobs == 2
PowerMargin == 5
NumCallers == 2

\* ------------------------------------------------------- program constants
INTERPRETER_STATE_RAPID == 0
INTERPRETER_STATE_FINISH == 1
INTERPRETER_STATE_PROGRAM == 2
INTERPRETER_STATE_MODECHANGE == 3

\* Defaults of the LaserSettings object built in Interpreter.__init__.
LaserSettings == [speed |-> 20, power |-> 1000]

\* The command codes of LaserCommandConstants that command() compares with
\* and whose handlers touch the modelled attributes.
CommandCodes ==
    {"COMMAND_CUT", "COMMAND_MOVE", "COMMAND_JOG", "COMMAND_JOG_SWITCH",
     "COMMAND_JOG_FINISH", "COMMAND_HOME", "COMMAND_SET_SPEED",
     "COMMAND_SET_POWER", "COMMAND_SET_PPI", "COMMAND_SET_PWM",
     "COMMAND_SET_POSITION", "COMMAND_MODE_RAPID", "COMMAND_MODE_PROGRAM",
     "COMMAND_MODE_FINISHED"}

\* An integer that is none of the codes command() compares with.
UNLISTED_CODE == "UNLISTED_CODE"

\* isinstance(command, int): the codes are integers, any other first element
\* (a string such as "text") is not.
IsInt(code) == code \in CommandCodes \cup {UNLISTED_CODE}

\* ----------------------------------------------------------- python values
\* A value handed to command(): a bare int, a tuple (code, *values), a str,
\* or a generator object.
PyInt(code) == [type |-> "int", code |-> code, values |-> <<>>]
PyTuple(code, values) == [type |-> "tuple", code |-> code, values |-> values]
PyStr(s) == [type |-> "str", code |-> s, values |-> <<>>]

\* The in-flight slot Interpreter.spooled_item: None, a tuple command, or a
\* generator over seq of which pos elements have been yielded.
None == [type |-> "NoneType", code |-> "", values |-> <<>>, job |-> 0,
         pos |-> 0, seq |-> <<>>]
TupleItem(job, code, values) ==
    [type |-> "tuple", code |-> code, values |-> values, job |-> job,
     pos |-> 0, seq |-> <<>>]
GeneratorItem(job, seq) ==
    [type |-> "generator", code |-> "", values |-> <<>>, job |-> job,
     pos |-> 0, seq |-> seq]

\* ------------------------------------------------------------------- jobs
\* What producers put into the Spooler: kind is the python shape of the
\* element (int, tuple, an object with generate(), a generator function, or
\* something else).
Job(kind, code, values, seq) ==
    [id |-> 0, kind |-> kind, code |-> code, values |-> values, seq |-> seq,
     by |-> "job", from |-> 0, no |-> 0]
NoJob == [id |-> 0, kind |-> "NoneType", code |-> "", values |-> <<>>,
          seq |-> <<>>, by |-> "", from |-> 0, no |-> 0]

SET_SPEED_10 == PyTuple("COMMAND_SET_SPEED", <<10>>)
MOVE_5_5 == PyTuple("COMMAND_MOVE", <<5, 5>>)
HOME == PyInt("COMMAND_HOME")

\* The i-th command of the lazy sequences: SET_SPEED(10), MOVE(5,5), HOME, ...
LazyCommand(i) ==
    CASE i % 3 = 1 -> SET_SPEED_10
      [] i % 3 = 2 -> MOVE_5_5
      [] OTHER -> HOME
LazySequence(k) == [i \in 1..k |-> LazyCommand(i)]

JobCatalog ==
    { Job("generate", "", <<>>, LazySequence(k)) : k \in 0..MaxLen }
    \cup
    { Job("tuple", "COMMAND_MOVE", <<1, 1>>, <<>>),
      Job("int", "COMMAND_HOME", <<>>, <<>>),
      Job("generate", "", <<>>, <<PyStr("text"), MOVE_5_5>>),
      Job("callable", "", <<>>, <<PyTuple(UNLISTED_CODE, <<>>), MOVE_5_5>>) }

\* Jobs for the hold checks: a single command and the longest lazy sequence.
HoldJobs ==
    { Job("tuple", "COMMAND_MOVE", <<1, 1>>, <<>>),
      Job("generate", "", <<>>, LazySequence(MaxLen)) }

\* Elements for remove: an int, a tuple and an object.
RemoveJobs ==
    { Job("int", "COMMAND_HOME", <<>>, <<>>),
      Job("tuple", "COMMAND_MOVE", <<1, 1>>, <<>>),
      Job("generate", "", <<>>, LazySequence(1)) }

\* Malformed jobs (a str, a tuple whose first element is no code, the empty
\* tuple, MOVE with one argument) and a well-formed one.
MalformedJobs ==
    { Job("str", "text", <<>>, <<>>),
      Job("tuple", "text", <<>>, <<>>),
      Job("tuple", "", <<>>, <<>>),
      Job("tuple", "COMMAND_MOVE", <<1>>, <<>>),
      Job("int", "COMMAND_HOME", <<>>, <<>>) }

\* Jobs that ask for a motion mode.
ModeJobs ==
    { Job("int", "COMMAND_MODE_RAPID", <<>>, <<>>),
      Job("int", "COMMAND_MODE_PROGRAM", <<>>, <<>>),
      Job("tuple", "COMMAND_MODE_FINISHED", <<>>, <<>>),
      Job("generate", "", <<>>, <<PyInt("COMMAND_MODE_PROGRAM"),
                                  PyInt("COMMAND_MODE_RAPID")>>) }

\* Jobs around a shutdown: an element that is neither int, tuple nor factory,
\* a command and a lazy sequence.
QuitJobs ==
    { Job("str", "text", <<>>, <<>>),
      Job("int", "COMMAND_HOME", <<>>, <<>>),
      Job("generate", "", <<>>, LazySequence(1)) }

\* One job for each command that sets the position.
PositionJobs ==
    { Job("tuple", "COMMAND_CUT", <<1, 2>>, <<>>),
      Job("tuple", "COMMAND_MOVE", <<2, 1>>, <<>>),
      Job("tuple", "COMMAND_JOG", <<1, 1>>, <<>>),
      Job("tuple", "COMMAND_JOG_SWITCH", <<2, 2>>, <<>>),
      Job("tuple", "COMMAND_JOG_FINISH", <<1, 2>>, <<>>),
      Job("tuple", "COMMAND_SET_POSITION", <<2, 1>>, <<>>),
      Job("int", "COMMAND_HOME", <<>>, <<>>) }

\* Jobs that ask for a motion mode among jobs that do not.
MixedJobs ==
    ModeJobs \cup
    { Job("tuple", "COMMAND_MOVE", <<1, 1>>, <<>>),
      Job("generate", "", <<>>, LazySequence(MaxLen)) }

\* ------------------------------------------------------------------ state
VARIABLES
    spooled_item,   \* Interpreter.spooled_item
    temp_holds,     \* Interpreter.temp_holds: [n, evals], true while evals < n
    holds,          \* Interpreter.holds: current value of each predicate
    state,          \* Interpreter.state
    speed,          \* Interpreter.settings.speed
    power,          \* Interpreter.settings.power
    current_x,      \* context.current_x
    current_y,      \* context.current_y
    quit,           \* context.quit
    stopped,        \* context.stop() has been called
    _queue,         \* Spooler._queue
    nextId,         \* history: jobs enqueued so far
    dispatched,     \* history: per job, elements handed to command()
    discarded,      \* history: per job, dispatched[] when reset() dropped it
    rapid_calls,    \* history: the latest consecutive ensure_rapid_mode calls
    drain,          \* history: the ticks spent on the job in flight
    last,           \* history: what the most recent operation did
    queue_lock,     \* Spooler.queue_lock: 0 when free, else the holding thread
    pc,             \* per thread: the statement it is at
    local,          \* per thread: the call it is in and what the call did
    sent,           \* history: per thread, jobs it has passed to the Spooler
    popped,         \* history: the jobs pop() has returned, in order
    cleared         \* history: clear_queue has been called

threadVars == <<queue_lock, pc, local, sent, popped, cleared>>

vars == <<spooled_item, temp_holds, holds, state, speed, power, current_x,
          current_y, quit, stopped, _queue, nextId, dispatched, discarded,
          rapid_calls, drain, last, threadVars>>

JobIds == 1..MaxJobs

\* The ticks spent on the job in flight: the job, whether it is a lazy
\* sequence and of how many commands, the ticks since it was dequeued, and
\* whether one of them was held (the ticks are not counted from then on).
NoDrain == [job |-> 0, lazy |-> FALSE, len |-> 0, ticks |-> 0, held |-> FALSE]

\* The record of one operation: the exception that escaped it, the events it
\* published, and for a tick what the tick did (code and values are the
\* command it handed to command(), stopped whether it called context.stop());
\* for a remove, the element asked for and the queue before the call.
NoOp ==
    [op |-> "", exc |-> "none", signals |-> <<>>, arg |-> 0,
     evaluated |-> FALSE, temp_true |-> 0, expired |-> 0, perm_true |-> FALSE,
     expired_after |-> 0, held |-> FALSE, fetched |-> 0, pulled |-> 0,
     dispatched |-> 0,
     unrecognized |-> FALSE, finished |-> 0, inflight |-> 0,
     drain |-> NoDrain, code |-> "", values |-> <<>>, element |-> NoJob,
     before |-> <<>>, stopped |-> FALSE]
Op(name) == [NoOp EXCEPT !.op = name]

\* The interpreter and its spooler as one value, for the methods to work on.
\* ret is the return value of the method just applied.
Machine(name) ==
    [spooled_item |-> spooled_item, temp_holds |-> temp_holds, holds |-> holds,
     state |-> state, speed |-> speed, power |-> power,
     current_x |-> current_x, current_y |-> current_y, quit |-> quit,
     stopped |-> stopped, _queue |-> _queue,
     dispatched |-> dispatched, ret |-> FALSE, t |-> Op(name)]

Commit(m) ==
    /\ spooled_item' = m.spooled_item
    /\ temp_holds' = m.temp_holds
    /\ holds' = m.holds
    /\ state' = m.state
    /\ speed' = m.speed
    /\ power' = m.power
    /\ current_x' = m.current_x
    /\ current_y' = m.current_y
    /\ quit' = m.quit
    /\ stopped' = m.stopped
    /\ _queue' = m._queue
    /\ dispatched' = m.dispatched
    /\ last' = m.t
    /\ UNCHANGED threadVars

raise(m, exception) == [m EXCEPT !.t.exc = exception]
signal(m, name, payload) ==
    [m EXCEPT !.t.signals = Append(@, <<name, payload>>)]

\* ---------------------------------------------------- Interpreter handlers
move(m, x, y) == [m EXCEPT !.current_x = x, !.current_y = y]

cut(m, x, y) == [m EXCEPT !.current_x = x, !.current_y = y]

home(m) == [m EXCEPT !.current_x = 0, !.current_y = 0]

set_position(m, x, y) == [m EXCEPT !.current_x = x, !.current_y = y]

set_speed(m, s) == [m EXCEPT !.speed = s]

\* __init__ stores the option opt_jog_mode (0) in self.jog, which hides the
\* method jog: the call self.jog(x, y, ...) calls an int.
jog(m, x, y) == raise(m, "TypeError")

\* ensure_rapid_mode without the early return.
ensure_rapid_mode_always(m) ==
    signal([m EXCEPT !.state = INTERPRETER_STATE_RAPID],
           "interpreter;mode", INTERPRETER_STATE_RAPID)

ensure_rapid_mode(m) ==
    IF m.state = INTERPRETER_STATE_RAPID
    THEN m
    ELSE signal([m EXCEPT !.state = INTERPRETER_STATE_RAPID],
                "interpreter;mode", INTERPRETER_STATE_RAPID)

\* ensure_finished_mode that publishes nothing.
ensure_finished_mode_silent(m) ==
    IF m.state = INTERPRETER_STATE_FINISH
    THEN m
    ELSE [m EXCEPT !.state = INTERPRETER_STATE_FINISH]

ensure_finished_mode(m) ==
    IF m.state = INTERPRETER_STATE_FINISH
    THEN m
    ELSE signal([m EXCEPT !.state = INTERPRETER_STATE_FINISH],
                "interpreter;mode", INTERPRETER_STATE_FINISH)

ensure_program_mode(m) ==
    IF m.state = INTERPRETER_STATE_PROGRAM
    THEN m
    ELSE signal([m EXCEPT !.state = INTERPRETER_STATE_PROGRAM],
                "interpreter;mode", INTERPRETER_STATE_PROGRAM)

\* set_power without the upper limit.
set_power_unlimited(m, v) ==
    LET m1 == [m EXCEPT !.power = v]
    IN  IF m1.power <= 0 THEN [m1 EXCEPT !.power = 0] ELSE m1

set_power(m, v) ==
    LET m1 == [m EXCEPT !.power = v]
        m2 == IF m1.power > 1000 THEN [m1 EXCEPT !.power = 1000] ELSE m1
    IN  IF m2.power <= 0 THEN [m2 EXCEPT !.power = 0] ELSE m2

set_ppi(m, v) ==
    LET m1 == [m EXCEPT !.power = v]
        m2 == IF m1.power > 1000 THEN [m1 EXCEPT !.power = 1000] ELSE m1
    IN  IF m2.power <= 0 THEN [m2 EXCEPT !.power = 0] ELSE m2

\* The first test reads self.power, an attribute the Interpreter does not
\* have: the assignment is done and the method ends in AttributeError.
set_pwm(m, v) == raise([m EXCEPT !.power = v], "AttributeError")

\* Interpreter.command: False when the value is not a command, otherwise the
\* handler of the code runs, an AttributeError of the handler is swallowed and
\* the result is True; any other exception leaves command(). The empty tuple
\* is the tuple whose code is "".
command(m, c) ==
    \* command[0] of the empty tuple
    IF c.type = "tuple" /\ c.code = ""
    THEN raise(m, "IndexError")
    ELSE IF ~(c.type \in {"int", "tuple"} /\ IsInt(c.code))
    THEN [m EXCEPT !.ret = FALSE]
    ELSE
      LET code == c.code
          values == c.values
          r == CASE code = "COMMAND_CUT" ->
                      IF Len(values) # 2 THEN raise(m, "ValueError")
                      ELSE cut(m, values[1], values[2])
                 [] code = "COMMAND_MOVE" ->
                      IF Len(values) # 2 THEN raise(m, "ValueError")
                      ELSE move(m, values[1], values[2])
                 [] code \in {"COMMAND_JOG", "COMMAND_JOG_SWITCH",
                              "COMMAND_JOG_FINISH"} ->
                      IF Len(values) # 2 THEN raise(m, "ValueError")
                      ELSE jog(m, values[1], values[2])
                 [] code = "COMMAND_HOME" -> home(m)
                 [] code = "COMMAND_SET_SPEED" ->
                      IF Len(values) < 1 THEN raise(m, "IndexError")
                      ELSE set_speed(m, values[1])
                 [] code = "COMMAND_SET_POWER" ->
                      IF Len(values) < 1 THEN raise(m, "IndexError")
                      ELSE set_power(m, values[1])
                 [] code = "COMMAND_SET_PPI" ->
                      IF Len(values) < 1 THEN raise(m, "IndexError")
                      ELSE set_ppi(m, values[1])
                 [] code = "COMMAND_SET_PWM" ->
                      IF Len(values) < 1 THEN raise(m, "IndexError")
                      ELSE set_pwm(m, values[1])
                 [] code = "COMMAND_SET_POSITION" ->
                      IF Len(values) < 2 THEN raise(m, "IndexError")
                      ELSE set_position(m, values[1], values[2])
                 [] code = "COMMAND_MODE_RAPID" -> ensure_rapid_mode(m)
                 [] code = "COMMAND_MODE_PROGRAM" -> ensure_program_mode(m)
                 [] code = "COMMAND_MODE_FINISHED" -> ensure_finished_mode(m)
                 [] OTHER -> m
      IN  IF r.t.exc = "AttributeError"
          THEN [r EXCEPT !.t.exc = "none", !.ret = TRUE]
          ELSE IF r.t.exc # "none" THEN r
          ELSE [r EXCEPT !.ret = TRUE]

\* hold in which a temporary hold that has just expired still holds the data.
hold_expiring_holds(m) ==
    LET n == Len(m.temp_holds)
        value == [i \in 1..n |-> m.temp_holds[i].evals < m.temp_holds[i].n]
        temp_hold == \E i \in 1..n : value[i]
        fail_hold == \E i \in 1..n : ~value[i]
        evaluated == [i \in 1..n |->
                        [m.temp_holds[i] EXCEPT !.evals = @ + 1,
                                                !.alive = value[i]]]
        pruned == IF fail_hold
                  THEN SelectSeq(evaluated, LAMBDA h : h.alive)
                  ELSE evaluated
        perm == \E i \in 1..Len(m.holds) : m.holds[i]
    IN  [m EXCEPT !.temp_holds = pruned,
                  !.ret = temp_hold \/ fail_hold \/ perm,
                  !.t.evaluated = TRUE,
                  !.t.temp_true = Cardinality({i \in 1..n : value[i]}),
                  !.t.expired = Cardinality({i \in 1..n : ~value[i]}),
                  !.t.expired_after =
                      IF fail_hold
                      THEN evaluated[CHOOSE i \in 1..n : ~value[i]].evals
                      ELSE 0,
                  !.t.perm_true = perm,
                  !.t.held = temp_hold \/ fail_hold \/ perm]

\* hold that does not look at the permanent holds.
hold_ignoring_permanent(m) ==
    LET n == Len(m.temp_holds)
        value == [i \in 1..n |-> m.temp_holds[i].evals < m.temp_holds[i].n]
        temp_hold == \E i \in 1..n : value[i]
        fail_hold == \E i \in 1..n : ~value[i]
        evaluated == [i \in 1..n |->
                        [m.temp_holds[i] EXCEPT !.evals = @ + 1,
                                                !.alive = value[i]]]
        pruned == IF fail_hold
                  THEN SelectSeq(evaluated, LAMBDA h : h.alive)
                  ELSE evaluated
        perm == \E i \in 1..Len(m.holds) : m.holds[i]
    IN  [m EXCEPT !.temp_holds = pruned,
                  !.ret = temp_hold,
                  !.t.evaluated = TRUE,
                  !.t.temp_true = Cardinality({i \in 1..n : value[i]}),
                  !.t.expired = Cardinality({i \in 1..n : ~value[i]}),
                  !.t.expired_after =
                      IF fail_hold
                      THEN evaluated[CHOOSE i \in 1..n : ~value[i]].evals
                      ELSE 0,
                  !.t.perm_true = perm,
                  !.t.held = temp_hold]

\* Interpreter.hold: every temporary hold is evaluated, those that return
\* false are removed, and the data is held when a temporary hold returned true
\* or a permanent one does.
hold(m) ==
    LET n == Len(m.temp_holds)
        value == [i \in 1..n |-> m.temp_holds[i].evals < m.temp_holds[i].n]
        temp_hold == \E i \in 1..n : value[i]
        fail_hold == \E i \in 1..n : ~value[i]
        evaluated == [i \in 1..n |->
                        [m.temp_holds[i] EXCEPT !.evals = @ + 1,
                                                !.alive = value[i]]]
        pruned == IF fail_hold
                  THEN SelectSeq(evaluated, LAMBDA h : h.alive)
                  ELSE evaluated
        perm == \E i \in 1..Len(m.holds) : m.holds[i]
    IN  [m EXCEPT !.temp_holds = pruned,
                  !.ret = temp_hold \/ perm,
                  !.t.evaluated = TRUE,
                  !.t.temp_true = Cardinality({i \in 1..n : value[i]}),
                  !.t.expired = Cardinality({i \in 1..n : ~value[i]}),
                  !.t.expired_after =
                      IF fail_hold
                      THEN evaluated[CHOOSE i \in 1..n : ~value[i]].evals
                      ELSE 0,
                  !.t.perm_true = perm,
                  !.t.held = temp_hold \/ perm]

\* ------------------------------------------------------------- the Spooler
peek(q) == IF Len(q) = 0 THEN NoJob ELSE q[1]

\* pop, job and clear_queue when nothing runs between their statements.
pop(m) ==
    IF Len(m._queue) = 0
    THEN m
    ELSE LET m1 == [m EXCEPT !._queue = Tail(@)]
         IN  signal(m1, "spooler;queue", Len(m1._queue))

job(m, j) ==
    LET m1 == [m EXCEPT !._queue = Append(@, j)]
    IN  signal(m1, "spooler;queue", Len(m1._queue))

clear_queue(m) ==
    LET m1 == [m EXCEPT !._queue = <<>>]
    IN  signal(m1, "spooler;queue", Len(m1._queue))

\* element == x of list.remove: ints and tuples compare by value, and an
\* object equals itself; id, by, from and no are not part of the element.
Equal(a, b) ==
    /\ a.kind = b.kind
    /\ a.code = b.code
    /\ a.values = b.values
    /\ a.seq = b.seq

\* The scan of list.remove: the least index from i on whose element equals e,
\* 0 when there is none.
RECURSIVE index(_, _, _)
index(q, e, i) ==
    IF i > Len(q) THEN 0
    ELSE IF Equal(q[i], e) THEN i
    ELSE index(q, e, i + 1)

\* remove that deletes the last element equal to the one given.
remove_last_occurrence(m, element) ==
    LET hits == {i \in 1..Len(m._queue) : Equal(m._queue[i], element)}
    IN  IF hits = {}
        THEN raise(m, "ValueError")
        ELSE LET k == CHOOSE i \in hits : \A h \in hits : h <= i
                 m1 == [m EXCEPT !._queue = SubSeq(@, 1, k - 1)
                                              \o SubSeq(@, k + 1, Len(@))]
             IN  signal(m1, "spooler;queue", Len(m1._queue))

\* Spooler.remove when nothing runs between its statements: list.remove
\* deletes the first equal element, or raises ValueError, which leaves the
\* method before the release and the signal.
remove(m, element) ==
    LET i == index(m._queue, element, 1)
    IN  IF i = 0
        THEN raise(m, "ValueError")
        ELSE LET m1 == [m EXCEPT !._queue = SubSeq(@, 1, i - 1)
                                              \o SubSeq(@, i + 1, Len(@))]
             IN  signal(m1, "spooler;queue", Len(m1._queue))

\* --------------------------------------------------------------- the tick
\* The spooled element becomes the in-flight item: an int becomes a tuple of
\* one, a tuple is kept, anything else is asked for its generator
\* (generate(), or a call of the element); an element that is neither is
\* popped and forgotten.
_fetch_next_item_from_spooler(m) ==
    LET element == peek(m._queue)
    IN  IF element = NoJob
        THEN m
        ELSE
          LET m1 == [pop(m) EXCEPT !.t.fetched = element.id]
          IN  CASE element.kind = "int" ->
                     [m1 EXCEPT !.spooled_item =
                                   TupleItem(element.id, element.code, <<>>)]
                [] element.kind = "tuple" ->
                     [m1 EXCEPT !.spooled_item =
                          TupleItem(element.id, element.code, element.values)]
                [] element.kind \in {"generate", "callable"} ->
                     [m1 EXCEPT !.spooled_item =
                                   GeneratorItem(element.id, element.seq)]
                [] OTHER -> m1

\* The histories dispatched and drain.ticks count up to DispatchCap, which no
\* well-formed job reaches.
DispatchCap == MaxLen + 2

\* The value c of job j is handed to command().
Dispatch(m, j, c) ==
    command([m EXCEPT !.dispatched[j] = IF @ < DispatchCap THEN @ + 1 ELSE @,
                      !.t.dispatched = @ + 1,
                      !.t.code = c.code,
                      !.t.values = c.values], c)

_process_spooled_item(m) ==
    LET h == hold(m)
        item == h.spooled_item
    IN  IF h.ret THEN h
        ELSE IF item = None THEN h
        ELSE
          LET c == IF item.type = "generator"
                   THEN [h EXCEPT !.ret = FALSE]
                   ELSE Dispatch(h, item.job, item)
          IN  IF c.t.exc # "none" THEN c
              ELSE IF c.ret
              THEN [c EXCEPT !.spooled_item = None, !.t.finished = item.job]
              \* next(self.spooled_item)
              ELSE IF item.type # "generator" THEN raise(c, "TypeError")
              ELSE IF item.pos >= Len(item.seq)
              THEN [c EXCEPT !.spooled_item = None, !.t.finished = item.job]
              ELSE
                LET e == item.seq[item.pos + 1]
                    n == [c EXCEPT !.spooled_item.pos = @ + 1,
                                   !.t.pulled = 1,
                                   !.t.unrecognized =
                                       ~(e.type \in {"int", "tuple"}
                                         /\ e.code \in CommandCodes)]
                    r == Dispatch(n, item.job, e)
                IN  IF r.t.exc # "none" THEN r
                    ELSE IF ~r.ret THEN raise(r, "ValueError")
                    ELSE r

\* interpret that returns after the fetch and processes from the next tick on.
interpret_fetch_only(m) ==
    IF m.spooled_item = None
    THEN LET f == _fetch_next_item_from_spooler(m)
         IN  [f EXCEPT !.t.inflight = f.spooled_item.job]
    ELSE _process_spooled_item([m EXCEPT !.t.inflight = m.spooled_item.job])

\* interpret that fetches whether or not a job is in flight.
interpret_always_fetch(m) ==
    LET m1 == _fetch_next_item_from_spooler(m)
        m2 == [m1 EXCEPT !.t.inflight = m1.spooled_item.job]
    IN  IF m2.spooled_item = None
        THEN m2
        ELSE _process_spooled_item(m2)

\* self.context.stop()
stop(m) == [m EXCEPT !.stopped = TRUE, !.t.stopped = TRUE]

interpret(m) ==
    LET m1 == IF m.spooled_item = None
              THEN _fetch_next_item_from_spooler(m)
              ELSE m
        m2 == [m1 EXCEPT !.t.inflight = m1.spooled_item.job]
    IN  IF m2.spooled_item = None
        THEN IF m2.quit THEN stop(m2) ELSE m2
        ELSE _process_spooled_item(m2)

\* reset that leaves the pending queue alone.
reset_slot_only(m) == [m EXCEPT !.spooled_item = None, !.temp_holds = <<>>]

reset(m) ==
    LET m1 == [m EXCEPT !.spooled_item = None]
        m2 == clear_queue(m1)
    IN  [m2 EXCEPT !.spooled_item = None, !.temp_holds = <<>>]

\* ---------------------------------------------------------------- actions
\* Jobs in the queue or in flight.
Pending == {_queue[i].id : i \in 1..Len(_queue)}
             \cup (IF spooled_item = None THEN {} ELSE {spooled_item.job})

NotDiscarded == 0 - 1

\* The threads: the callers 1..NumCallers of job, jobs, job_if_idle and
\* clear_queue, and the one consumer calling pop.
Callers == 1..NumCallers
Consumer == NumCallers + 1
Threads == Callers \cup {Consumer}

NoSignal == 0 - 1
NoCall == [op |-> "", arg |-> <<>>, queue_head |-> NoJob, ret |-> "",
           sig |-> NoSignal, before |-> 0, then |-> "idle",
           caller |-> "", element |-> NoJob, mark |-> 0, during |-> FALSE,
           done |-> FALSE]
Call(name) == [NoCall EXCEPT !.op = name]

Init ==
    /\ spooled_item = None
    /\ temp_holds = <<>>
    /\ holds = <<>>
    /\ state = INTERPRETER_STATE_RAPID
    /\ speed = LaserSettings.speed
    /\ power = LaserSettings.power
    /\ current_x = 0
    /\ current_y = 0
    /\ quit = FALSE
    /\ stopped = FALSE
    /\ _queue = <<>>
    /\ nextId = 0
    /\ dispatched = [j \in JobIds |-> 0]
    /\ discarded = [j \in JobIds |-> NotDiscarded]
    /\ rapid_calls = <<>>
    /\ drain = NoDrain
    /\ last = NoOp
    /\ queue_lock = 0
    /\ pc = [t \in Threads |-> "idle"]
    /\ local = [t \in Threads |-> NoCall]
    /\ sent = [t \in Threads |-> 0]
    /\ popped = <<>>
    /\ cleared = FALSE

\* The driver calls interpret().
Tick ==
    LET r == interpret(Machine("interpret"))
        element == peek(_queue)
        d == IF r.t.fetched # 0
             THEN [job |-> r.t.fetched,
                   lazy |-> element.kind \in {"generate", "callable"},
                   len |-> Len(element.seq),
                   ticks |-> IF r.t.held THEN 0 ELSE 1,
                   held |-> r.t.held]
             ELSE IF r.t.inflight = 0 \/ drain.held THEN drain
             ELSE IF r.t.held THEN [drain EXCEPT !.held = TRUE]
             ELSE [drain EXCEPT
                      !.ticks = IF @ < DispatchCap THEN @ + 1 ELSE @]
    IN  /\ Commit([r EXCEPT !.t.drain = d])
        /\ drain' = IF r.spooled_item = None THEN NoDrain ELSE d
        /\ rapid_calls' = <<>>
        /\ UNCHANGED <<nextId, discarded>>

\* A producer calls spooler.job(element).
EnqueueFrom(catalog, budget) ==
    \E b \in catalog :
        /\ nextId < budget
        /\ Len(_queue) < MaxQueue
        /\ Commit(job(Machine("job"), [b EXCEPT !.id = nextId + 1]))
        /\ nextId' = nextId + 1
        /\ rapid_calls' = <<>>
        /\ UNCHANGED <<discarded, drain>>

Enqueue == EnqueueFrom(JobCatalog, MaxJobs)

EnqueueMode == EnqueueFrom(ModeJobs, MaxJobs)

EnqueueHeld == EnqueueFrom(HoldJobs, MaxHeldJobs)

EnqueueMalformed == EnqueueFrom(MalformedJobs, MaxJobs)

EnqueueMixed == EnqueueFrom(MixedJobs, MaxModeJobs)

EnqueueQuit == EnqueueFrom(QuitJobs, MaxJobs)

EnqueuePosition == EnqueueFrom(PositionJobs, MaxJobs)

\* The kernel is asked to shut down: context.quit becomes true.
SetQuit ==
    /\ ~quit
    /\ Commit([Machine("") EXCEPT !.quit = TRUE])
    /\ rapid_calls' = <<>>
    /\ UNCHANGED <<nextId, discarded, drain>>

\* realtime_command(REALTIME_RESET).
Reset ==
    /\ Commit(reset(Machine("reset")))
    /\ discarded' = [j \in JobIds |->
                       IF j \in Pending THEN dispatched[j] ELSE discarded[j]]
    /\ rapid_calls' = <<>>
    /\ drain' = NoDrain
    /\ UNCHANGED nextId

\* A caller installs a temporary hold whose predicate is true n times.
AddTempHold ==
    \E n \in 0..MaxHoldTicks :
        /\ Len(temp_holds) < MaxTempHolds
        /\ Commit([Machine("") EXCEPT
                       !.temp_holds = Append(@, [n |-> n, evals |-> 0,
                                                 alive |-> TRUE])])
        /\ rapid_calls' = <<>>
        /\ UNCHANGED <<nextId, discarded, drain>>

\* A caller installs a permanent hold.
AddHold ==
    \E b \in BOOLEAN :
        /\ Len(holds) < MaxHolds
        /\ Commit([Machine("") EXCEPT !.holds = Append(@, b)])
        /\ rapid_calls' = <<>>
        /\ UNCHANGED <<nextId, discarded, drain>>

\* The condition a permanent hold tests changes.
HoldChanges ==
    \E i \in 1..Len(holds) :
        /\ Commit([Machine("") EXCEPT !.holds[i] = ~@])
        /\ rapid_calls' = <<>>
        /\ UNCHANGED <<nextId, discarded, drain>>

Published(m, name) ==
    Cardinality({i \in 1..Len(m.t.signals) : m.t.signals[i][1] = name})

EnsureRapidMode ==
    LET r == ensure_rapid_mode(Machine("ensure_rapid_mode"))
        call == [before |-> state,
                 published |-> Published(r, "interpreter;mode")]
    IN  /\ Commit(r)
        /\ rapid_calls' = IF Len(rapid_calls) = 2
                          THEN <<rapid_calls[2], call>>
                          ELSE Append(rapid_calls, call)
        /\ UNCHANGED <<nextId, discarded, drain>>

EnsureProgramMode ==
    /\ Commit(ensure_program_mode(Machine("ensure_program_mode")))
    /\ rapid_calls' = <<>>
    /\ UNCHANGED <<nextId, discarded, drain>>

EnsureFinishedMode ==
    /\ Commit(ensure_finished_mode(Machine("ensure_finished_mode")))
    /\ rapid_calls' = <<>>
    /\ UNCHANGED <<nextId, discarded, drain>>

Next ==
    \/ Tick
    \/ Enqueue
    \/ Reset

Spec == Init /\ [][Next]_vars

\* The holds: temporary and permanent holds installed and changing while jobs
\* are spooled, interpreted and reset.
NextHolds ==
    \/ Tick
    \/ EnqueueHeld
    \/ Reset
    \/ AddTempHold
    \/ AddHold
    \/ HoldChanges

SpecHolds == Init /\ [][NextHolds]_vars

\* The motion modes: the three ensure_*_mode methods called directly and
\* through the MODE_* commands of queued jobs.
NextMode ==
    \/ Tick
    \/ EnqueueMode
    \/ EnsureRapidMode
    \/ EnsureProgramMode
    \/ EnsureFinishedMode

SpecMode == Init /\ [][NextMode]_vars

\* The motion modes among everything else: queued commands of all kinds,
\* realtime reset, ticks and direct calls of the ensure_*_mode methods.
NextModeMachine ==
    \/ Tick
    \/ EnqueueMixed
    \/ Reset
    \/ EnsureRapidMode
    \/ EnsureProgramMode
    \/ EnsureFinishedMode

SpecModeMachine == Init /\ [][NextModeMachine]_vars

\* ------------------------------------------------- the power-like settings
\* The values given to set_power, set_ppi and set_pwm: around both ends of
\* the range, inside it and well outside it.
PowerInputs ==
    ((0 - PowerMargin)..PowerMargin)
        \cup ((1000 - PowerMargin)..(1000 + PowerMargin))
        \cup {500, 1500}

Setting(m, v) == Commit([m EXCEPT !.t.arg = v])

\* interpreter.set_power(v), set_ppi(v), set_pwm(v) called directly.
SetPower ==
    \E v \in PowerInputs :
        /\ Setting(set_power(Machine("set_power"), v), v)
        /\ UNCHANGED <<nextId, discarded, drain, rapid_calls>>

SetPpi ==
    \E v \in PowerInputs :
        /\ Setting(set_ppi(Machine("set_ppi"), v), v)
        /\ UNCHANGED <<nextId, discarded, drain, rapid_calls>>

SetPwm ==
    \E v \in PowerInputs :
        /\ Setting(set_pwm(Machine("set_pwm"), v), v)
        /\ UNCHANGED <<nextId, discarded, drain, rapid_calls>>

\* interpreter.command(code, v) for the three power-like codes.
CommandSetPower ==
    \E v \in PowerInputs :
        /\ Setting(command(Machine("COMMAND_SET_POWER"),
                           PyTuple("COMMAND_SET_POWER", <<v>>)), v)
        /\ UNCHANGED <<nextId, discarded, drain, rapid_calls>>

CommandSetPpi ==
    \E v \in PowerInputs :
        /\ Setting(command(Machine("COMMAND_SET_PPI"),
                           PyTuple("COMMAND_SET_PPI", <<v>>)), v)
        /\ UNCHANGED <<nextId, discarded, drain, rapid_calls>>

CommandSetPwm ==
    \E v \in PowerInputs :
        /\ Setting(command(Machine("COMMAND_SET_PWM"),
                           PyTuple("COMMAND_SET_PWM", <<v>>)), v)
        /\ UNCHANGED <<nextId, discarded, drain, rapid_calls>>

NextSettings ==
    \/ SetPower
    \/ SetPpi
    \/ SetPwm
    \/ CommandSetPower
    \/ CommandSetPpi
    \/ CommandSetPwm

SpecSettings == Init /\ [][NextSettings]_vars

\* -------------------------------------------------- the Spooler in threads
\* extend that inserts at the head of the queue.
extend_at_head(q, jobs) == jobs \o q

\* list.extend / list.append at the tail of the queue.
extend(q, jobs) == q \o jobs

\* queue_head = self._queue[0]; del self._queue[0]
del_head(q) == Tail(q)

NewJob(t, n, by) ==
    [Job("int", "COMMAND_HOME", <<>>, <<>>) EXCEPT
        !.from = t, !.no = n, !.by = by]

interpreterVars ==
    <<spooled_item, temp_holds, holds, state, speed, power, current_x,
      current_y, quit, stopped, dispatched, discarded, rapid_calls, drain,
      last>>

\* A thread calls job(element): the call starts by waiting for the lock.
CallJob ==
    \E t \in Callers :
        /\ pc[t] = "idle"
        /\ nextId < MaxJobs
        /\ pc' = [pc EXCEPT ![t] = "acquire"]
        /\ local' = [local EXCEPT ![t] =
                        [Call("job") EXCEPT
                            !.arg = <<NewJob(t, sent[t] + 1, "job")>>]]
        /\ sent' = [sent EXCEPT ![t] = @ + 1]
        /\ nextId' = nextId + 1
        /\ UNCHANGED <<_queue, queue_lock, popped, cleared, interpreterVars>>

\* A thread calls jobs([a, b]).
CallJobs ==
    \E t \in Callers :
        /\ pc[t] = "idle"
        /\ nextId + 2 <= MaxJobs
        /\ pc' = [pc EXCEPT ![t] = "acquire"]
        /\ local' = [local EXCEPT ![t] =
                        [Call("jobs") EXCEPT
                            !.arg = <<NewJob(t, sent[t] + 1, "jobs"),
                                      NewJob(t, sent[t] + 2, "jobs")>>]]
        /\ sent' = [sent EXCEPT ![t] = @ + 2]
        /\ nextId' = nextId + 2
        /\ UNCHANGED <<_queue, queue_lock, popped, cleared, interpreterVars>>

\* A thread calls job_if_idle(element): the length is tested without the
\* lock, then job(element) is called or False returned.
CallJobIfIdle ==
    \E t \in Callers :
        /\ pc[t] = "idle"
        /\ nextId < MaxJobs
        /\ IF Len(_queue) = 0
           THEN /\ pc' = [pc EXCEPT ![t] = "acquire"]
                /\ local' = [local EXCEPT ![t] =
                       [Call("job_if_idle") EXCEPT
                          !.arg = <<NewJob(t, sent[t] + 1, "job_if_idle")>>]]
                /\ sent' = [sent EXCEPT ![t] = @ + 1]
                /\ nextId' = nextId + 1
           ELSE /\ local' = [local EXCEPT ![t] =
                       [Call("job_if_idle") EXCEPT !.ret = "False"]]
                /\ UNCHANGED <<pc, sent, nextId>>
        /\ UNCHANGED <<_queue, queue_lock, popped, cleared, interpreterVars>>

\* A thread calls clear_queue().
CallClearQueue ==
    \E t \in Callers :
        /\ pc[t] = "idle"
        /\ pc' = [pc EXCEPT ![t] = "acquire"]
        /\ local' = [local EXCEPT ![t] = Call("clear_queue")]
        /\ cleared' = TRUE
        /\ UNCHANGED <<_queue, queue_lock, sent, popped,
                       nextId, interpreterVars>>

\* The consumer calls pop(): the length is tested without the lock.
CallPop ==
    /\ pc[Consumer] = "idle"
    /\ IF Len(_queue) = 0
       THEN /\ local' = [local EXCEPT ![Consumer] =
                            [Call("pop") EXCEPT !.ret = "None"]]
            /\ UNCHANGED pc
       ELSE /\ local' = [local EXCEPT ![Consumer] = Call("pop")]
            /\ pc' = [pc EXCEPT ![Consumer] = "acquire"]
    /\ UNCHANGED <<_queue, queue_lock, sent, popped, cleared,
                       nextId, interpreterVars>>

\* self.queue_lock.acquire(True)
Acquire ==
    \E t \in Threads :
        /\ pc[t] = "acquire"
        /\ queue_lock = 0
        /\ queue_lock' = t
        /\ pc' = [pc EXCEPT ![t] = "locked"]
        /\ UNCHANGED <<_queue, local, sent, popped, cleared,
                       nextId, interpreterVars>>

\* job, jobs: the queue is extended under the lock.
ExtendLocked ==
    \E t \in Callers :
        /\ pc[t] = "locked"
        /\ local[t].op \in {"job", "jobs", "job_if_idle"}
        /\ _queue' = extend(_queue, local[t].arg)
        /\ local' = [local EXCEPT ![t].before = Len(_queue)]
        /\ pc' = [pc EXCEPT ![t] = "release"]
        /\ UNCHANGED <<queue_lock, sent, popped, cleared,
                       nextId, interpreterVars>>

\* clear_queue: the queue is replaced by an empty list under the lock.
ClearLocked ==
    \E t \in Callers :
        /\ pc[t] = "locked"
        /\ local[t].op = "clear_queue"
        /\ _queue' = <<>>
        /\ pc' = [pc EXCEPT ![t] = "release"]
        /\ UNCHANGED <<queue_lock, local, sent, popped, cleared,
                       nextId, interpreterVars>>

\* pop: the head is read and deleted under the lock; on a queue emptied since
\* the test, self._queue[0] raises IndexError and the lock stays held.
PopLocked ==
    /\ pc[Consumer] = "locked"
    /\ IF Len(_queue) = 0
       THEN /\ pc' = [pc EXCEPT ![Consumer] = "raised"]
            /\ local' = [local EXCEPT ![Consumer].ret = "IndexError"]
            /\ UNCHANGED _queue
       ELSE /\ local' = [local EXCEPT ![Consumer].queue_head = _queue[1]]
            /\ _queue' = del_head(_queue)
            /\ pc' = [pc EXCEPT ![Consumer] = "release"]
    /\ UNCHANGED <<queue_lock, sent, popped, cleared,
                       nextId, interpreterVars>>

\* self.queue_lock.release()
Release ==
    \E t \in Threads :
        /\ pc[t] = "release"
        /\ queue_lock' = 0
        /\ pc' = [pc EXCEPT ![t] = "signal"]
        /\ UNCHANGED <<_queue, local, sent, popped, cleared,
                       nextId, interpreterVars>>

\* self.context.signal('spooler;queue', len(self._queue)) and the return, to
\* the driver or into the method that made the call.
Signal ==
    \E t \in Threads :
        /\ pc[t] = "signal"
        /\ pc' = [pc EXCEPT ![t] = local[t].then]
        /\ local' = [local EXCEPT
                        ![t].sig = Len(_queue),
                        ![t].ret = CASE local[t].op = "job_if_idle" -> "True"
                                     [] local[t].op = "pop" -> "queue_head"
                                     [] OTHER -> "None"]
        /\ popped' = IF local[t].op = "pop"
                     THEN Append(popped, local[t].queue_head)
                     ELSE popped
        /\ UNCHANGED <<_queue, queue_lock, sent, cleared,
                       nextId, interpreterVars>>

NextSpooler ==
    \/ CallJob
    \/ CallJobs
    \/ CallJobIfIdle
    \/ CallClearQueue
    \/ CallPop
    \/ Acquire
    \/ ExtendLocked
    \/ ClearLocked
    \/ PopLocked
    \/ Release
    \/ Signal

SpecSpooler == Init /\ [][NextSpooler]_vars

\* Producers calling job and jobs, and the consumer calling pop.
NextFifo ==
    \/ CallJob
    \/ CallJobs
    \/ CallPop
    \/ Acquire
    \/ ExtendLocked
    \/ PopLocked
    \/ Release
    \/ Signal

SpecFifo == Init /\ [][NextFifo]_vars

\* ------------------------------------------------------ remove in threads
\* What callers ask remove to delete: the job the producers enqueue, and one
\* that is never in the queue.
RemoveArgs ==
    { Job("int", "COMMAND_HOME", <<>>, <<>>),
      Job("tuple", "COMMAND_MOVE", <<1, 1>>, <<>>) }

\* A thread calls remove(element).
CallRemove ==
    \E t \in Callers, e \in RemoveArgs :
        /\ pc[t] = "idle"
        /\ pc' = [pc EXCEPT ![t] = "acquire"]
        /\ local' = [local EXCEPT ![t] = [Call("remove") EXCEPT !.arg = <<e>>]]
        /\ UNCHANGED <<_queue, queue_lock, sent, popped, cleared,
                       nextId, interpreterVars>>

\* remove: self._queue.remove(element) under the lock; with no equal element
\* it raises ValueError and the lock stays held.
RemoveLocked ==
    \E t \in Callers :
        LET i == index(_queue, local[t].arg[1], 1)
        IN  /\ pc[t] = "locked"
            /\ local[t].op = "remove"
            /\ IF i = 0
               THEN /\ pc' = [pc EXCEPT ![t] = "raised"]
                    /\ local' = [local EXCEPT ![t].ret = "ValueError"]
                    /\ UNCHANGED _queue
               ELSE /\ _queue' = SubSeq(_queue, 1, i - 1)
                                     \o SubSeq(_queue, i + 1, Len(_queue))
                    /\ pc' = [pc EXCEPT ![t] = "release"]
                    /\ UNCHANGED local
            /\ UNCHANGED <<queue_lock, sent, popped, cleared,
                           nextId, interpreterVars>>

\* Producers, the consumer, clear_queue and remove.
NextLock ==
    \/ CallJob
    \/ CallClearQueue
    \/ CallPop
    \/ CallRemove
    \/ Acquire
    \/ ExtendLocked
    \/ ClearLocked
    \/ PopLocked
    \/ RemoveLocked
    \/ Release
    \/ Signal

SpecLock == Init /\ [][NextLock]_vars

\* ------------------------------------------- interpret and reset in threads
\* The driver's thread runs interpret(): it is the one consumer of the
\* Spooler. Every statement of interpret, _fetch_next_item_from_spooler and
\* _process_spooled_item that reads or writes an attribute another thread
\* writes is one step; pop() is entered at its length test and goes on with
\* Acquire, PopLocked, Release and Signal.
Driver == Consumer

deviceVars ==
    <<temp_holds, holds, state, speed, power, current_x, current_y, quit,
      stopped, dispatched>>

spoolerVars == <<_queue, queue_lock, sent, popped, cleared, nextId>>

historyVars == <<discarded, rapid_calls, drain, last>>

Goto(t, label) == pc' = [pc EXCEPT ![t] = label]

\* interpret() returns, or ends in the exception named.
Return(t, result) ==
    /\ pc' = [pc EXCEPT ![t] = "idle"]
    /\ local' = [local EXCEPT ![t].ret = result, ![t].done = TRUE]

\* What a handler run by the driver's thread leaves in the interpreter.
Effects(m) ==
    /\ spooled_item' = m.spooled_item
    /\ temp_holds' = m.temp_holds
    /\ holds' = m.holds
    /\ state' = m.state
    /\ speed' = m.speed
    /\ power' = m.power
    /\ current_x' = m.current_x
    /\ current_y' = m.current_y
    /\ quit' = m.quit
    /\ stopped' = m.stopped
    /\ dispatched' = m.dispatched

\* interpret(): if self.spooled_item is None (line 60)
TickStart ==
    /\ pc[Driver] = "idle"
    /\ local' = [local EXCEPT ![Driver] = Call("interpret")]
    /\ Goto(Driver, IF spooled_item = None THEN "peek" ELSE "hold")
    /\ UNCHANGED <<spooled_item, deviceVars, spoolerVars, historyVars>>

\* element = self.context.spooler.peek() (lines 109-111)
TickPeek ==
    /\ pc[Driver] = "peek"
    /\ IF peek(_queue) = NoJob
       THEN /\ Goto(Driver, "fetched")
            /\ UNCHANGED local
       ELSE /\ Goto(Driver, "pop")
            /\ local' = [local EXCEPT ![Driver].element = peek(_queue)]
    /\ UNCHANGED <<spooled_item, deviceVars, spoolerVars, historyVars>>

\* self.context.spooler.pop() (line 113): the length test of pop.
TickPop ==
    /\ pc[Driver] = "pop"
    /\ IF Len(_queue) = 0
       THEN /\ Goto(Driver, "assign")
            /\ UNCHANGED local
       ELSE /\ Goto(Driver, "acquire")
            /\ local' = [local EXCEPT ![Driver] =
                            [Call("pop") EXCEPT
                                !.caller = "interpret",
                                !.then = "assign",
                                !.element = local[Driver].element]]
    /\ UNCHANGED <<spooled_item, deviceVars, spoolerVars, historyVars>>

\* The element peeked becomes the item in flight (lines 114-128).
TickAssign ==
    LET element == local[Driver].element
    IN  /\ pc[Driver] = "assign"
        /\ spooled_item' =
               CASE element.kind = "int" ->
                        TupleItem(element.id, element.code, <<>>)
                 [] element.kind = "tuple" ->
                        TupleItem(element.id, element.code, element.values)
                 [] element.kind \in {"generate", "callable"} ->
                        GeneratorItem(element.id, element.seq)
                 [] OTHER -> spooled_item
        /\ Goto(Driver, "fetched")
        /\ UNCHANGED <<local, deviceVars, spoolerVars, historyVars>>

\* if self.spooled_item is None: ... return (lines 62-66)
TickFetched ==
    /\ pc[Driver] = "fetched"
    /\ IF spooled_item = None
       THEN /\ Return(Driver, "None")
            /\ stopped' = (stopped \/ quit)
       ELSE /\ Goto(Driver, "hold")
            /\ UNCHANGED <<local, stopped>>
    /\ UNCHANGED <<spooled_item, temp_holds, holds, state, speed, power,
                   current_x, current_y, quit, dispatched, spoolerVars,
                   historyVars>>

\* if self.hold(): return (lines 82-85)
TickHold ==
    LET h == hold(Machine("interpret"))
    IN  /\ pc[Driver] = "hold"
        /\ temp_holds' = h.temp_holds
        /\ IF h.ret
           THEN Return(Driver, "None")
           ELSE Goto(Driver, "slot") /\ UNCHANGED local
        /\ UNCHANGED <<spooled_item, holds, state, speed, power, current_x,
                       current_y, quit, stopped, dispatched, spoolerVars,
                       historyVars>>

\* if self.spooled_item is None: return (lines 86-87)
TickSlot ==
    /\ pc[Driver] = "slot"
    /\ IF spooled_item = None
       THEN Return(Driver, "None")
       ELSE Goto(Driver, "command") /\ UNCHANGED local
    /\ UNCHANGED <<spooled_item, deviceVars, spoolerVars, historyVars>>

\* if self.command(self.spooled_item) (line 90): the attribute is read again;
\* command() is False for None and for a generator.
TickCommand ==
    LET item == spooled_item
        c == IF item.type = "tuple"
             THEN Dispatch(Machine("interpret"), item.job, item)
             ELSE [Machine("interpret") EXCEPT !.ret = FALSE]
    IN  /\ pc[Driver] = "command"
        /\ Effects(c)
        /\ IF c.t.exc # "none" THEN Return(Driver, c.t.exc)
           ELSE IF c.ret THEN Goto(Driver, "clear") /\ UNCHANGED local
           ELSE Goto(Driver, "next") /\ UNCHANGED local
        /\ UNCHANGED <<spoolerVars, historyVars>>

\* self.spooled_item = None (lines 91 and 101)
TickClear ==
    /\ pc[Driver] = "clear"
    /\ spooled_item' = None
    /\ Return(Driver, "None")
    /\ UNCHANGED <<deviceVars, spoolerVars, historyVars>>

\* e = next(self.spooled_item); if not self.command(e): raise ValueError
\* (lines 96-99): the attribute is read once more; next() of None or of a
\* tuple is a TypeError.
TickNext ==
    LET item == spooled_item
        pulled == [Machine("interpret") EXCEPT !.spooled_item.pos = @ + 1]
        r == Dispatch(pulled, item.job, item.seq[item.pos + 1])
    IN  /\ pc[Driver] = "next"
        /\ IF item.type # "generator"
           THEN /\ Return(Driver, "TypeError")
                /\ UNCHANGED <<spooled_item, deviceVars>>
           ELSE IF item.pos >= Len(item.seq)
           THEN /\ Goto(Driver, "clear")
                /\ UNCHANGED <<local, spooled_item, deviceVars>>
           ELSE /\ Effects(r)
                /\ Return(Driver, IF r.t.exc # "none" THEN r.t.exc
                                  ELSE IF ~r.ret THEN "ValueError"
                                  ELSE "None")
        /\ UNCHANGED <<spoolerVars, historyVars>>

\* Another thread calls realtime_command(REALTIME_RESET): reset() sets
\* self.spooled_item = None (line 404) and calls clear_queue() (line 405).
\* mark is the number of jobs enqueued so far, during whether interpret() is
\* running.
CallReset ==
    \E t \in Callers :
        /\ pc[t] = "idle"
        /\ ~cleared
        /\ spooled_item' = None
        /\ local' = [local EXCEPT ![t] =
                        [Call("clear_queue") EXCEPT
                            !.caller = "reset",
                            !.then = "reset406",
                            !.mark = nextId,
                            !.during = (pc[Driver] # "idle")]]
        /\ Goto(t, "acquire")
        /\ cleared' = TRUE
        /\ UNCHANGED <<deviceVars, _queue, queue_lock, sent, popped, nextId,
                       historyVars>>

\* self.spooled_item = None (line 406)
Reset406 ==
    \E t \in Callers :
        /\ pc[t] = "reset406"
        /\ spooled_item' = None
        /\ Goto(t, "reset407")
        /\ UNCHANGED <<local, deviceVars, spoolerVars, historyVars>>

\* self.temp_holds.clear() (line 407) and the return.
Reset407 ==
    \E t \in Callers :
        /\ pc[t] = "reset407"
        /\ temp_holds' = <<>>
        /\ Return(t, "None")
        /\ UNCHANGED <<spooled_item, holds, state, speed, power, current_x,
                       current_y, quit, stopped, dispatched, spoolerVars,
                       historyVars>>

\* A producer calls spooler.job(element) while the lock is free.
EnqueueRace ==
    /\ queue_lock = 0
    /\ EnqueueFrom(HoldJobs, MaxJobs)

NextRace ==
    \/ EnqueueRace
    \/ TickStart
    \/ TickPeek
    \/ TickPop
    \/ TickAssign
    \/ TickFetched
    \/ TickHold
    \/ TickSlot
    \/ TickCommand
    \/ TickClear
    \/ TickNext
    \/ CallReset
    \/ Reset406
    \/ Reset407
    \/ Acquire
    \/ ClearLocked
    \/ PopLocked
    \/ Release
    \/ Signal

SpecRace == Init /\ [][NextRace]_vars

\* ---------------------------------------------------------------- position
NextPosition ==
    \/ Tick
    \/ EnqueuePosition

SpecPosition == Init /\ [][NextPosition]_vars

\* ---------------------------------------------------------------- shutdown
NextQuit ==
    \/ Tick
    \/ EnqueueQuit
    \/ SetQuit

SpecQuit == Init /\ [][NextQuit]_vars

\* ------------------------------------------------------------ availability
\* Jobs, some of them malformed, spooled and interpreted; no holds.
NextAvailable ==
    \/ Tick
    \/ EnqueueMalformed

SpecAvailable == Init /\ [][NextAvailable]_vars

\* ------------------------------------------------------------------ remove
\* The thread a call made outside the thread steps runs on.
Main == 1

\* A producer calls spooler.job(element) while the lock is free.
EnqueueRemovable ==
    \E b \in RemoveJobs :
        /\ queue_lock = 0
        /\ nextId < MaxJobs
        /\ Len(_queue) < MaxQueue + 1
        /\ Commit(job(Machine("job"), [b EXCEPT !.id = nextId + 1]))
        /\ nextId' = nextId + 1
        /\ UNCHANGED <<discarded, drain, rapid_calls>>

\* A caller calls spooler.remove(element): the lock is taken, and it is still
\* held when list.remove has raised.
Remove ==
    \E e \in RemoveJobs :
        LET r == remove(Machine("remove"), e)
        IN  /\ queue_lock = 0
            /\ _queue' = r._queue
            /\ last' = [r.t EXCEPT !.element = e, !.before = _queue]
            /\ queue_lock' = IF r.t.exc = "none" THEN 0 ELSE Main
            /\ UNCHANGED <<spooled_item, temp_holds, holds, state, speed,
                           power, current_x, current_y, quit, stopped,
                           nextId, dispatched,
                           discarded, rapid_calls, drain, pc, local, sent,
                           popped, cleared>>

NextRemove ==
    \/ EnqueueRemovable
    \/ Remove

SpecRemove == Init /\ [][NextRemove]_vars

TypeOK ==
    /\ state \in {INTERPRETER_STATE_RAPID, INTERPRETER_STATE_FINISH,
                  INTERPRETER_STATE_PROGRAM}
    /\ Len(_queue) <= MaxQueue + MaxJobs
    /\ nextId \in 0..MaxJobs

\* ================================================================ claims

\* ---- C1 (SpecFifo) ------------------------------------------------------
\* The jobs a thread has appended, seen in the order popped - in the
\* consumer's hand - still queued, are its jobs 1, 2, ... in that order, each
\* exactly once: pop returns every producer's jobs in the order the producer
\* enqueued them, and no job is duplicated or dropped.
InHand ==
    IF pc[Consumer] \in {"release", "signal"}
    THEN <<local[Consumer].queue_head>>
    ELSE <<>>

Appended(p) ==
    sent[p] - (IF pc[p] \in {"acquire", "locked"} THEN Len(local[p].arg) ELSE 0)

HandedOff(p) == SelectSeq(popped \o InHand \o _queue, LAMBDA j : j.from = p)

\* C1: FIFO hand-off per producer, nothing duplicated, nothing dropped.
C1_FifoHandOff ==
    \A p \in Callers :
        /\ Len(HandedOff(p)) = Appended(p)
        /\ \A i \in 1..Len(HandedOff(p)) : HandedOff(p)[i].no = i

\* Two producers' jobs, one of them from a jobs() call, have been popped
\* interleaved.
C1_Witness ==
    /\ Len(popped) >= 3
    /\ popped[1].from # popped[2].from
    /\ \E i \in 1..Len(popped) : popped[i].by = "jobs"

\* ---- C2 (SpecSpooler) ---------------------------------------------------
\* C2: job_if_idle enqueues only onto a queue that is empty at the moment of
\* the enqueue, so the queue never holds two jobs added by job_if_idle.
C2_JobIfIdleAtomic ==
    /\ \A t \in Callers :
           (local[t].op = "job_if_idle"
                /\ pc[t] \in {"release", "signal"})
               => local[t].before = 0
    /\ Cardinality({i \in 1..Len(_queue) : _queue[i].by = "job_if_idle"}) <= 1

\* ---- C3 (SpecSpooler) ---------------------------------------------------
\* C3: the 'spooler;queue' event published by a clear_queue call carries 0,
\* also when producers enqueue concurrently.
C3_ClearPublishesZero ==
    \A t \in Callers :
        (local[t].op = "clear_queue" /\ pc[t] = "idle") => local[t].sig = 0

\* ---- C4 (SpecHolds) -----------------------------------------------------
\* C4: a temporary hold stays in temp_holds exactly while all its evaluations
\* returned true; a tick in which some temporary hold returns true dispatches
\* nothing; a tick in which every temporary hold has expired and no permanent
\* hold is true is not held and works on the job in flight.
C4_TempHoldExpiry ==
    /\ \A i \in 1..Len(temp_holds) :
           temp_holds[i].alive /\ temp_holds[i].evals <= temp_holds[i].n
    /\ (last.op = "interpret" /\ last.evaluated) =>
           /\ Len(temp_holds) = last.temp_true
           /\ last.temp_true > 0 =>
                  /\ last.held
                  /\ last.dispatched = 0
                  /\ last.pulled = 0
                  /\ last.finished = 0
           /\ (last.temp_true = 0 /\ ~last.perm_true) =>
                  /\ ~last.held
                  /\ last.dispatched = 1 \/ last.finished # 0

\* A hold that was true MaxHoldTicks times expires at its next evaluation, and
\* that tick dispatches a command.
C4_Witness ==
    /\ last.op = "interpret"
    /\ last.expired_after = MaxHoldTicks + 1
    /\ last.dispatched = 1
    /\ temp_holds = <<>>

\* ---- C5 (SpecSettings) --------------------------------------------------
Clamped(v) == IF v > 1000 THEN 1000 ELSE IF v <= 0 THEN 0 ELSE v

\* C5: after set_power(v), called directly or by SET_POWER(v), settings.power
\* is 1000 for v > 1000, 0 for v <= 0 and v otherwise.
C5_SetPowerClamps ==
    last.op \in {"set_power", "COMMAND_SET_POWER"} =>
        /\ power = Clamped(last.arg)
        /\ last.exc = "none"

C5_Witness ==
    /\ last.op = "COMMAND_SET_POWER"
    /\ last.arg = 1500
    /\ power = 1000

\* ---- C6 (SpecSettings) --------------------------------------------------
\* C6: after SET_PPI(v) or SET_PWM(v) dispatched by command(), settings.power
\* is in [0, 1000] and is what SET_POWER(v) stores.
C6_PowerLikeClamp ==
    last.op \in {"COMMAND_SET_PPI", "COMMAND_SET_PWM"} =>
        /\ power \in 0..1000
        /\ power = Clamped(last.arg)

\* ---- C7 (SpecMode) ------------------------------------------------------
ModeEvents == rapid_calls[1].published + rapid_calls[2].published

\* C7: two consecutive calls of ensure_rapid_mode publish 'interpreter;mode'
\* exactly once.
C7_TwoCallsOneEvent == Len(rapid_calls) = 2 => ModeEvents = 1

\* C7 as amended: two consecutive calls publish the event once when the mode
\* was not RAPID before the first call and not at all when it was; the second
\* call never publishes.
C7_TwoCallsAtMostOneEvent ==
    Len(rapid_calls) = 2 =>
        /\ ModeEvents =
              (IF rapid_calls[1].before = INTERPRETER_STATE_RAPID
               THEN 0 ELSE 1)
        /\ rapid_calls[2].published = 0
        /\ state = INTERPRETER_STATE_RAPID

C7_Witness ==
    /\ Len(rapid_calls) = 2
    /\ rapid_calls[1].before = INTERPRETER_STATE_PROGRAM
    /\ ModeEvents = 1

\* ---- C8 (Spec) ----------------------------------------------------------
\* What command e leaves behind.
Applied(e) ==
    CASE e.code = "COMMAND_SET_SPEED" -> speed = e.values[1]
      [] e.code = "COMMAND_MOVE" ->
             current_x = e.values[1] /\ current_y = e.values[2]
      [] e.code = "COMMAND_HOME" -> current_x = 0 /\ current_y = 0
      [] OTHER -> TRUE

\* C8: a lazy sequence dequeued with no hold is drained one command per
\* tick: after tick i exactly i of its commands have been dispatched and the
\* i-th has taken effect; the tick after the last command finds it exhausted
\* and empties the slot without error; a tick with an empty slot dequeues
\* the next job when there is one.
C8_LazyDrain ==
    /\ (spooled_item.type = "generator" /\ ~drain.held) =>
           /\ drain.job = spooled_item.job
           /\ drain.ticks <= drain.len
           /\ spooled_item.pos = drain.ticks
           /\ dispatched[spooled_item.job] = drain.ticks
           /\ spooled_item.pos >= 1 =>
                  Applied(spooled_item.seq[spooled_item.pos])
           /\ \A i \in 1..spooled_item.pos :
                  spooled_item.seq[i].code = "COMMAND_SET_SPEED" =>
                      Applied(spooled_item.seq[i])
    /\ (last.op = "interpret" /\ last.finished # 0 /\ last.drain.lazy
            /\ ~last.drain.held) =>
           /\ last.drain.ticks = last.drain.len + 1
           /\ dispatched[last.finished] = last.drain.len
           /\ last.dispatched = 0
           /\ last.exc = "none"
           /\ spooled_item = None
    /\ (last.op = "interpret" /\ last.inflight = 0 /\ last.fetched = 0) =>
           Len(_queue) = 0

\* The sequence [SET_SPEED(10), MOVE(5,5)] found exhausted by its third tick.
C8_Witness ==
    /\ last.op = "interpret"
    /\ last.finished # 0
    /\ last.drain.lazy
    /\ last.drain.len = 2
    /\ last.drain.ticks = 3
    /\ speed = 10
    /\ current_x = 5
    /\ current_y = 5

\* ---- C9 (Spec) ----------------------------------------------------------
\* C9: reset() leaves the slot and the queue empty, and no command of a job
\* that was in flight or pending at a reset is dispatched afterwards.
C9_ResetDiscards ==
    /\ last.op = "reset" =>
           /\ spooled_item = None
           /\ peek(_queue) = NoJob
    /\ \A j \in JobIds :
           discarded[j] # NotDiscarded =>
               /\ dispatched[j] = discarded[j]
               /\ j \notin Pending

\* A reset dropped a partially drained job and a pending one, and a job
\* enqueued afterwards has been dispatched.
C9_Witness ==
    \E j1, j2, j3 \in JobIds :
        /\ discarded[j1] >= 1
        /\ discarded[j2] = 0
        /\ j3 > j1 /\ j3 > j2
        /\ discarded[j3] = NotDiscarded
        /\ dispatched[j3] >= 1

\* ---- C10 (Spec) ---------------------------------------------------------
\* C10: a tick whose lazy sequence yields an unrecognized command empties the
\* in-flight slot and lets no error escape.
C10_UnrecognizedAbandons ==
    (last.op = "interpret" /\ last.unrecognized) =>
        /\ spooled_item = None
        /\ last.exc = "none"

\* ---- C11 (SpecRemove) ---------------------------------------------------
\* The queue before the latest remove, and the places where it held an
\* element equal to the one asked for.
Occurrences ==
    {i \in 1..Len(last.before) : Equal(last.before[i], last.element)}

\* C11: remove(job) deletes the first element equal to job and leaves the
\* others in their order; with no equal element in the queue the call ends in
\* an error raised to the caller, the queue is as it was and no
\* 'spooler;queue' event is published.
C11_RemoveFirstOrFail ==
    last.op = "remove" =>
        IF Occurrences = {}
        THEN /\ last.exc = "ValueError"
             /\ _queue = last.before
             /\ last.signals = <<>>
        ELSE \E k \in Occurrences :
                 /\ \A h \in Occurrences : k <= h
                 /\ Len(_queue) = Len(last.before) - 1
                 /\ \A i \in 1..Len(_queue) :
                        _queue[i] = last.before[IF i < k THEN i ELSE i + 1]
                 /\ last.exc = "none"
                 /\ last.signals = <<<<"spooler;queue", Len(_queue)>>>>

\* The element was in the queue twice, with another one between, and the
\* first of the two has been deleted.
C11_Witness ==
    /\ last.op = "remove"
    /\ Cardinality(Occurrences) = 2
    /\ Len(_queue) = 2
    /\ ~Equal(_queue[1], last.element)
    /\ Equal(_queue[2], last.element)

\* ---- C12 (SpecAvailable) ------------------------------------------------
\* C12: no job, malformed or not, stops the tick loop. Without holds a tick
\* depends on the slot and the queue alone, so a tick that starts with a job
\* in flight and ends with the slot as it found it is repeated by every later
\* tick: the slot is never emptied and the jobs behind are never dequeued.
\* Every tick that starts with a job in flight therefore empties the slot or
\* advances the lazy sequence.
C12_MalformedJobsPass ==
    [][(last'.op = "interpret" /\ spooled_item # None)
           => spooled_item' # spooled_item]_vars

\* ---- C13 (SpecModeMachine) ----------------------------------------------
NoMode == 0 - 1

\* The mode an operation asks for: that of the ensure_*_mode method called,
\* or of the MODE_* command a tick dispatched; NoMode for any other.
ModeTarget(t) ==
    CASE t.op = "ensure_rapid_mode" -> INTERPRETER_STATE_RAPID
      [] t.op = "ensure_program_mode" -> INTERPRETER_STATE_PROGRAM
      [] t.op = "ensure_finished_mode" -> INTERPRETER_STATE_FINISH
      [] t.op = "interpret" /\ t.dispatched >= 1
             /\ t.code = "COMMAND_MODE_RAPID" -> INTERPRETER_STATE_RAPID
      [] t.op = "interpret" /\ t.dispatched >= 1
             /\ t.code = "COMMAND_MODE_PROGRAM" -> INTERPRETER_STATE_PROGRAM
      [] t.op = "interpret" /\ t.dispatched >= 1
             /\ t.code = "COMMAND_MODE_FINISHED" -> INTERPRETER_STATE_FINISH
      [] OTHER -> NoMode

ModeEventsOf(t) ==
    SelectSeq(t.signals, LAMBDA e : e[1] = "interpreter;mode")

\* C13: every step leaves the mode as it is and publishes no
\* 'interpreter;mode' event, unless it is an ensure_*_mode call or a tick
\* dispatching a MODE_* command whose target differs from the mode: that step
\* sets the mode to the target and publishes exactly one event carrying it.
\* The mode is never MODECHANGE.
C13_ModeMachine ==
    [][/\ state' # INTERPRETER_STATE_MODECHANGE
       /\ IF ModeTarget(last') \in {NoMode, state}
          THEN /\ state' = state
               /\ ModeEventsOf(last') = <<>>
          ELSE /\ state' = ModeTarget(last')
               /\ ModeEventsOf(last')
                      = <<<<"interpreter;mode", ModeTarget(last')>>>>]_vars

\* A tick has dispatched MODE_FINISHED out of another mode.
C13_Witness ==
    /\ last.op = "interpret"
    /\ last.code = "COMMAND_MODE_FINISHED"
    /\ state = INTERPRETER_STATE_FINISH
    /\ ModeEventsOf(last) = <<<<"interpreter;mode", INTERPRETER_STATE_FINISH>>>>
    /\ dispatched[1] >= 1
    /\ last.inflight # 1

\* ---- C14 (SpecRace) -----------------------------------------------------
\* C14: when reset() has run on another thread while interpret() was
\* running and both have returned, no job enqueued before the reset is in
\* flight or in the queue, interpret() has not ended in an error, and the
\* queue lock is free.
C14_ResetRacingTick ==
    \A t \in Callers :
        (/\ local[t].caller = "reset"
         /\ local[t].done
         /\ local[t].during
         /\ pc[Driver] \in {"idle", "raised"})
            => /\ spooled_item = None \/ spooled_item.job > local[t].mark
               /\ \A i \in 1..Len(_queue) : _queue[i].id > local[t].mark
               /\ pc[Driver] # "raised"
               /\ local[Driver].ret
                      \notin {"IndexError", "TypeError", "ValueError"}
               /\ queue_lock = 0

\* ---- C15 (SpecQuit) -----------------------------------------------------
\* C15: a tick calls context.stop() only with context.quit set, no job in
\* flight and an empty queue; a tick that has dequeued an element, dropped or
\* not, does not call it.
C15_ShutdownOnlyIdle ==
    (last.op = "interpret" /\ last.stopped) =>
        /\ quit
        /\ last.inflight = 0
        /\ last.fetched = 0
        /\ Len(_queue) = 0

\* ---- C16 (SpecHolds) ----------------------------------------------------
\* C16: a tick never changes the set of permanent holds; a tick with a job
\* in flight and a permanent hold returning true is held: it dispatches
\* nothing, pulls nothing from the lazy sequence, leaves the job in the slot
\* and the mode, the position, speed and power as they were; a tick with a
\* job in flight and no hold returning true is not held and dispatches the
\* job's next command (or finds the lazy sequence exhausted).
C16_PermanentHolds ==
    [][last'.op = "interpret" =>
          /\ holds' = holds
          /\ (last'.inflight # 0 /\ last'.perm_true) =>
                 /\ last'.held
                 /\ last'.dispatched = 0
                 /\ last'.pulled = 0
                 /\ last'.finished = 0
                 /\ dispatched' = dispatched
                 /\ spooled_item' # None
                 /\ spooled_item # None => spooled_item' = spooled_item
                 /\ UNCHANGED <<state, speed, power, current_x, current_y>>
          /\ (last'.inflight # 0 /\ ~last'.perm_true
                  /\ last'.temp_true = 0) =>
                 /\ ~last'.held
                 /\ \/ last'.dispatched = 1
                    \/ /\ last'.finished = last'.inflight
                       /\ spooled_item' = None]_vars

\* A partially drained lazy sequence is held by a permanent hold.
C16_Witness ==
    /\ last.op = "interpret"
    /\ last.perm_true
    /\ last.held
    /\ last.temp_true = 0
    /\ holds # <<>>
    /\ spooled_item.type = "generator"
    /\ spooled_item.pos >= 1

\* ---- C17 (SpecHolds) ----------------------------------------------------
\* C17: after reset() the temporary holds and the permanent holds are both
\* empty.
C17_ResetRemovesHolds ==
    last.op = "reset" =>
        /\ temp_holds = <<>>
        /\ holds = <<>>

\* ---- C18 (Spec) ---------------------------------------------------------
\* The jobs a step hands a command of.
Moved == {j \in JobIds : dispatched'[j] > dispatched[j]}

\* C18: a tick removes at most one job from the queue, its head, and only
\* when the slot is empty at the start of the tick; it hands at most one
\* command to command(); it never replaces the job in flight by another; and
\* when it dispatches a command of a job, every other job that has had a
\* command dispatched is neither in flight nor queued.
C18_OneJobOneCommand ==
    [][last'.op = "interpret" =>
          /\ Len(_queue') \in {Len(_queue), Len(_queue) - 1}
          /\ Len(_queue') < Len(_queue) =>
                 /\ spooled_item = None
                 /\ _queue' = Tail(_queue)
          /\ last'.dispatched <= 1
          /\ Cardinality(Moved) <= 1
          /\ \A j \in Moved :
                 /\ dispatched'[j] = dispatched[j] + 1
                 /\ \A k \in JobIds \ {j} :
                        dispatched[k] > 0 => k \notin Pending'
          /\ spooled_item # None =>
                 \/ spooled_item' = None
                 \/ spooled_item'.job = spooled_item.job]_vars

\* Two lazy sequences were queued together: the first has been drained and
\* the second is being drained.
C18_Witness ==
    \E j, k \in JobIds :
        /\ j < k
        /\ dispatched[j] = MaxLen
        /\ dispatched[k] = 1
        /\ last.op = "interpret"
        /\ spooled_item.type = "generator"
        /\ spooled_item.job = k
        /\ spooled_item.pos = 1

\* ---- C19 (SpecPosition) -------------------------------------------------
PositionCodes ==
    {"COMMAND_CUT", "COMMAND_MOVE", "COMMAND_JOG", "COMMAND_JOG_SWITCH",
     "COMMAND_JOG_FINISH", "COMMAND_SET_POSITION", "COMMAND_HOME"}

\* C19: a tick that dispatches CUT, MOVE, JOG, JOG_SWITCH, JOG_FINISH or
\* SET_POSITION (x, y) leaves the position at (x, y), one that dispatches HOME
\* leaves it at (0, 0), and the tick ends without error with the slot empty.
C19_PositionCommands ==
    (last.op = "interpret" /\ last.dispatched = 1
         /\ last.code \in PositionCodes) =>
        /\ last.exc = "none"
        /\ spooled_item = None
        /\ IF last.code = "COMMAND_HOME"
           THEN current_x = 0 /\ current_y = 0
           ELSE current_x = last.values[1] /\ current_y = last.values[2]

\* ---- C20 (SpecLock) -----------------------------------------------------
\* C20: whenever no thread is inside a Spooler method (each is between calls
\* or its call has ended in an error), queue_lock is free.
C20_LockNeverLeaked ==
    (\A t \in Threads : pc[t] \in {"idle", "raised"}) => queue_lock = 0

====
